---- MODULE Spec2Model ----
(***************************************************************************)
(* Model of the embedding service (src/embedding-service): the persistence *)
(* handlers of app.py over the scoped session of database.py, the article  *)
(* scorer, the text normalizer and the batch classifier.                   *)
(*                                                                         *)
(* Strings that the code measures or rewrites are sequences of one-        *)
(* character strings.  Scores are integers in units of 1/One.              *)
(***************************************************************************)
EXTENDS Integers, Sequences, FiniteSets, TLC

VARIABLES
    db,                 \* articles table: committed rows, by primary key
    dbBefore,           \* the table as it was when the current request began
    request,            \* the request being handled
    pc,                 \* position of the handler
    session,            \* the SQLAlchemy session of get_db_session
    embedding_list,     \* model.encode([text])[0].tolist() of the single handler
    results,            \* batch handler: per-item result list
    successful_updates, \* batch handler: counter
    idx,                \* batch handler: position of the for loop (1-based)
    faults,             \* storage failures raised so far in this request
    itemFaults,         \* batch handler: positions whose lookup raised
    exc,                \* exception propagating out of the with block
    ret,                \* value of a return statement executed inside the with block
    response            \* the HTTP response of the finished request

storeVars == <<db, dbBefore, request, pc, session, embedding_list, results,
               successful_updates, idx, faults, itemFaults, exc, ret, response>>

VARIABLES
    scorer,             \* one call of calculate_article_score: arguments, base_score, position
    normalizer,         \* calls of clean_text_for_classification
    classify,           \* one request to /classify/batch
    embed               \* one request to /embed/batch

pureVars == <<scorer, normalizer, classify, embed>>

vars == <<storeVars, pureVars>>

-----------------------------------------------------------------------------
(* Bounds of the model *)

\* Longest articles list submitted to the batch endpoint.
MaxBatch == 2

-----------------------------------------------------------------------------
(* Values *)

NoneVal == "None"

\* Primary keys of the rows of the articles table.  The service never creates
\* or deletes rows, so the key set is fixed.
StoredIds == {"k1", "k2"}

\* uuid.UUID(s): the key a string parses to, or "ValueError".  "K1" is a second
\* spelling of k1 (UUID() accepts upper case, braces and urn: prefixes); "k3" is
\* well formed and matches no row.
UUID(s) ==
    CASE s = "k1" -> "k1"
      [] s = "K1" -> "k1"
      [] s = "k2" -> "k2"
      [] s = "k3" -> "k3"
      [] OTHER    -> "ValueError"

IdInputs == {"k1", "K1", "k2", "k3", "not-a-uuid"}

\* str.strip() on the texts of the persistence requests.
Strip(t) ==
    CASE t = " "   -> ""
      [] t = " b " -> "b"
      [] OTHER     -> t

TextInputs == {" ", "a", " b "}

EmbeddingDim == 384

NullEmbedding == [vec |-> "null", dim |-> 0]

\* model.encode([text])[0].tolist(): one vector of EmbeddingDim floats per text.
Encode(t) == [vec |-> t, dim |-> EmbeddingDim]

StatusValues == {"pending", "success", "error"}

\* A row of the articles table: the two columns the service writes and one of
\* the columns it never touches.
Row(e, s, c) == [embedding |-> e, embedding_status |-> s, content |-> c]

\* One element of the articles list of a batch request: a JSON object with
\* optional id and text, or something that is not an object.
Item(i, t) == [isobj |-> TRUE, id |-> i, text |-> t]
NonObject == [isobj |-> FALSE, id |-> NoneVal, text |-> NoneVal]

ItemInputs ==
    {Item(i, t) : i \in IdInputs \cup {NoneVal}, t \in TextInputs}
        \cup {Item("k1", NoneVal), NonObject}

RECURSIVE SeqsUpTo(_, _)
SeqsUpTo(S, n) ==
    IF n = 0 THEN {<<>>}
    ELSE LET shorter == SeqsUpTo(S, n - 1)
         IN  shorter \cup {Append(s, x) : s \in {q \in shorter : Len(q) = n - 1}, x \in S}

NoRequest == [kind |-> "none"]
NoResponse == [status |-> 0]

\* A request to POST /articles/<article_id>/embedding: the path parameter and
\* the text field of the JSON body (NoneVal: the body has no text field).
SingleRequest(a, t) == [kind |-> "single", article_id |-> a, text |-> t]

\* A request to POST /articles/batch/embedding: the articles field of the body.
\* haskey: the body has an articles field; islist: it is a JSON array.
BatchRequest(haskey, islist, items) ==
    [kind |-> "batch", haskey |-> haskey, islist |-> islist, articles |-> items]

BatchInputs ==
    {BatchRequest(TRUE, TRUE, items) : items \in SeqsUpTo(ItemInputs, MaxBatch)}
        \cup {BatchRequest(FALSE, FALSE, <<>>), BatchRequest(TRUE, FALSE, <<>>)}

\* The session: mem holds the attribute values of the loaded Article objects,
\* dirty the keys of the objects modified since the last flush, inTx whether a
\* statement has run on the connection since the last commit or rollback, and
\* ended how the last transaction of the session ended.
NoSession ==
    [state |-> "none", mem |-> [k \in StoredIds |-> Row(NullEmbedding, "pending", "c")],
     dirty |-> {}, inTx |-> FALSE, ended |-> "none"]

ErrorResponse(code, msg) == [status |-> code, error |-> msg]

\* One entry of the batch handler's results list.
ItemError(i, msg) ==
    [article_id |-> i, status |-> "error", message |-> msg, embedding_dimension |-> 0]
ItemSuccess(i, dim) ==
    [article_id |-> i, status |-> "success", message |-> "", embedding_dimension |-> dim]

-----------------------------------------------------------------------------
(* database.py: get_db_session, and the Session operations the handlers use *)

\* SessionLocal(): a fresh session; its objects load the committed rows.
SessionLocal == [state |-> "open", mem |-> db, dirty |-> {}, inTx |-> FALSE, ended |-> "none"]

\* session.query(Article).filter(Article.id == key).first(): the statement runs
\* on the session's connection, which opens its transaction.
Queried(s) == [s EXCEPT !.inTx = TRUE]

\* .first(): the primary key of the loaded Article, or NoneVal when no row
\* matches the filter.
FirstUnfiltered(key) == "k1"
First(key) == IF key \in StoredIds THEN key ELSE NoneVal

UpdatedWithContent(s, k, e) ==
    [s EXCEPT !.mem[k] = [@ EXCEPT !.embedding = e, !.embedding_status = "success",
                                   !.content = e.vec],
              !.dirty = @ \cup {k}]
UpdatedEmbeddingOnly(s, k, e) ==
    [s EXCEPT !.mem[k] = [@ EXCEPT !.embedding = e], !.dirty = @ \cup {k}]
\* article.embedding = e; article.embedding_status = 'success' on the loaded
\* object with primary key k.
Updated(s, k, e) ==
    [s EXCEPT !.mem[k] = [@ EXCEPT !.embedding = e, !.embedding_status = "success"],
              !.dirty = @ \cup {k}]

\* What a successful session.commit() leaves in the table: the flush writes
\* every dirty object, then COMMIT makes the writes durable together.
Flushed(s) == [k \in StoredIds |-> IF k \in s.dirty THEN s.mem[k] ELSE db[k]]

Committed(s) == [s EXCEPT !.dirty = {}, !.inTx = FALSE, !.ended = "committed"]

NotRolledBack(s) == s
\* session.rollback(): pending changes are discarded, objects reload from the table.
RolledBack(s) == [s EXCEPT !.mem = db, !.dirty = {}, !.inTx = FALSE, !.ended = "rolledback"]

NotClosed(s) == s
\* session.close()
Closed(s) == [s EXCEPT !.state = "closed"]

-----------------------------------------------------------------------------
(* app.py: the persistence handlers *)

Idle == pc = "idle"

\* The handler returns before it acquires a session.
Reject(req, resp) ==
    /\ request' = req
    /\ dbBefore' = db
    /\ response' = resp
    /\ pc' = "done"
    /\ session' = NoSession
    /\ embedding_list' = NullEmbedding
    /\ results' = <<>>
    /\ successful_updates' = 0
    /\ idx' = 1
    /\ faults' = {}
    /\ itemFaults' = {}
    /\ exc' = "none"
    /\ ret' = NoResponse
    /\ UNCHANGED db

\* The handler enters `with get_db_session() as session:`.
Enter(req, emb, at) ==
    /\ request' = req
    /\ dbBefore' = db
    /\ response' = NoResponse
    /\ pc' = at
    /\ session' = SessionLocal
    /\ embedding_list' = emb
    /\ results' = <<>>
    /\ successful_updates' = 0
    /\ idx' = 1
    /\ faults' = {}
    /\ itemFaults' = {}
    /\ exc' = "none"
    /\ ret' = NoResponse
    /\ UNCHANGED db

\* generate_and_store_embedding, up to the with statement: validation and
\* model.encode.
EmbedAndStore ==
    /\ UNCHANGED pureVars
    /\ Idle
    /\ \E article_id \in IdInputs, text \in TextInputs \cup {NoneVal} :
       LET req == SingleRequest(article_id, text)
       IN  IF UUID(article_id) = "ValueError"
             THEN Reject(req, ErrorResponse(400, "Invalid article ID format"))
           ELSE IF text = NoneVal
             THEN Reject(req, ErrorResponse(400, "Missing 'text' field in request"))
           ELSE IF Strip(text) = ""
             THEN Reject(req, ErrorResponse(400, "Empty text provided"))
           ELSE Enter(req, Encode(Strip(text)), "lookup")

\* The body of the with block up to the commit: find the article, return 404
\* from inside the block when there is none, else set the two fields.
StoreLookup(fail) ==
    /\ UNCHANGED pureVars
    /\ pc = "lookup"
    /\ LET article == First(UUID(request.article_id))
       IN  IF fail
             THEN /\ session' = Queried(session)
                  /\ faults' = faults \cup {"lookup"}
                  /\ exc' = "SQLAlchemyError"
                  /\ pc' = "rollback"
                  /\ UNCHANGED ret
           ELSE IF article = NoneVal
             THEN /\ session' = Queried(session)
                  /\ ret' = ErrorResponse(404, "Article not found")
                  /\ pc' = "exit"
                  /\ UNCHANGED <<faults, exc>>
           ELSE /\ session' = Updated(Queried(session), article, embedding_list)
                /\ pc' = "commit"
                /\ UNCHANGED <<faults, exc, ret>>
    /\ UNCHANGED <<db, dbBefore, request, embedding_list, results,
                   successful_updates, idx, itemFaults, response>>

\* session.commit() at the end of the single handler's with block.
StoreCommit(fail) ==
    /\ UNCHANGED pureVars
    /\ pc = "commit"
    /\ IF fail
         THEN /\ faults' = faults \cup {"commit"}
              /\ exc' = "SQLAlchemyError"
              /\ pc' = "rollback"
              /\ UNCHANGED <<db, session>>
       ELSE /\ db' = Flushed(session)
            /\ session' = Committed(session)
            /\ pc' = "exit"
            /\ UNCHANGED <<faults, exc>>
    /\ UNCHANGED <<dbBefore, request, embedding_list, results, successful_updates,
                   idx, itemFaults, ret, response>>

\* generate_batch_embeddings_and_store, up to the with statement: the checks
\* of the request envelope.
EmbedAndStoreBatch ==
    /\ UNCHANGED pureVars
    /\ Idle
    /\ \E req \in BatchInputs :
         IF ~req.haskey
           THEN Reject(req, ErrorResponse(400, "Missing 'articles' field in request"))
         ELSE IF ~req.islist \/ req.articles = <<>>
           THEN Reject(req, ErrorResponse(400, "Empty or invalid articles list"))
         ELSE Enter(req, NullEmbedding, "loop")

\* article_data.get('text', '').strip()
ItemText(item) == Strip(IF item.text = NoneVal THEN "" ELSE item.text)

\* One iteration of `for article_data in articles_data:`.  A lookup that raises
\* is caught by the iteration's own except clause; an element that is not an
\* object raises again inside that clause (article_data.get), which leaves the
\* with block.
BatchItem(fail) ==
    /\ UNCHANGED pureVars
    /\ pc = "loop"
    /\ LET article_data == request.articles[idx]
           article_id == article_data.id
           text == ItemText(article_data)
           last == idx = Len(request.articles)
           Continue(entry) ==
               /\ results' = Append(results, entry)
               /\ idx' = idx + 1
               /\ pc' = IF last THEN "bcommit" ELSE "loop"
               /\ exc' = exc
       IN  IF ~article_data.isobj
             THEN /\ exc' = "Exception"
                  /\ pc' = "rollback"
                  /\ UNCHANGED <<session, results, successful_updates, idx, itemFaults>>
           ELSE IF article_id = NoneVal \/ text = ""
             THEN /\ Continue(ItemError(article_id, "Missing article ID or text"))
                  /\ UNCHANGED <<session, successful_updates, itemFaults>>
           ELSE IF UUID(article_id) = "ValueError"
             THEN /\ Continue(ItemError(article_id, "Invalid article ID format"))
                  /\ UNCHANGED <<session, successful_updates, itemFaults>>
           ELSE IF fail
             THEN /\ Continue(ItemError(article_id, "SQLAlchemyError"))
                  /\ session' = Queried(session)
                  /\ itemFaults' = itemFaults \cup {idx}
                  /\ UNCHANGED successful_updates
           ELSE IF First(UUID(article_id)) = NoneVal
             THEN /\ Continue(ItemError(article_id, "Article not found"))
                  /\ session' = Queried(session)
                  /\ UNCHANGED <<successful_updates, itemFaults>>
           ELSE /\ Continue(ItemSuccess(article_id, Encode(text).dim))
                /\ session' = Updated(Queried(session), First(UUID(article_id)), Encode(text))
                /\ successful_updates' = successful_updates + 1
                /\ UNCHANGED itemFaults
    /\ UNCHANGED <<db, dbBefore, request, embedding_list, faults, ret, response>>

\* session.commit() after the loop of the batch handler.
BatchCommit(fail) ==
    /\ UNCHANGED pureVars
    /\ pc = "bcommit"
    /\ IF fail
         THEN /\ faults' = faults \cup {"commit"}
              /\ exc' = "SQLAlchemyError"
              /\ pc' = "rollback"
              /\ UNCHANGED <<db, session>>
       ELSE /\ db' = Flushed(session)
            /\ session' = Committed(session)
            /\ pc' = "exit"
            /\ UNCHANGED <<faults, exc>>
    /\ UNCHANGED <<dbBefore, request, embedding_list, results, successful_updates,
                   idx, itemFaults, ret, response>>

\* get_db_session after the yield, when the with block ended without an
\* exception (it ran to its end or executed a return): session.commit().  The
\* commit reaches the storage, and so can fail, only when a statement has run
\* since the last commit.
SessionExit(fail) ==
    /\ UNCHANGED pureVars
    /\ pc = "exit"
    /\ IF fail
         THEN /\ session.inTx
              /\ faults' = faults \cup {"exit"}
              /\ exc' = "SQLAlchemyError"
              /\ pc' = "rollback"
              /\ UNCHANGED <<db, session>>
       ELSE /\ db' = Flushed(session)
            /\ session' = Committed(session)
            /\ pc' = "close"
            /\ UNCHANGED <<faults, exc>>
    /\ UNCHANGED <<dbBefore, request, embedding_list, results, successful_updates,
                   idx, itemFaults, ret, response>>

\* get_db_session: except Exception: session.rollback(); raise
SessionRollback ==
    /\ UNCHANGED pureVars
    /\ pc = "rollback"
    /\ session' = RolledBack(session)
    /\ pc' = "close"
    /\ UNCHANGED <<db, dbBefore, request, embedding_list, results, successful_updates,
                   idx, faults, itemFaults, exc, ret, response>>

\* The JSON the single handler returns after its with block.
SingleSuccess ==
    [status |-> 200, article_id |-> request.article_id,
     embedding_dimension |-> embedding_list.dim, embedding_status |-> "success"]

BatchSuccessPerRow ==
    [status |-> 200, total_articles |-> Len(request.articles),
     successful_updates |->
         Cardinality({UUID(results[i].article_id) :
                         i \in {j \in DOMAIN results : results[j].status = "success"}}),
     results |-> results]
\* The JSON the batch handler returns after its with block.
BatchSuccess ==
    [status |-> 200, total_articles |-> Len(request.articles),
     successful_updates |-> successful_updates, results |-> results]

AnswerDespiteError ==
    IF ret # NoResponse THEN ret
    ELSE IF request.kind = "single" THEN SingleSuccess
    ELSE BatchSuccess

\* What the handler answers once the with statement is left: the except
\* clauses of the handler for an exception, else the value returned inside the
\* block, else the success JSON.
Answer ==
    IF exc = "SQLAlchemyError" THEN ErrorResponse(500, "Database error")
    ELSE IF exc = "Exception" THEN ErrorResponse(500, "Internal server error")
    ELSE IF ret # NoResponse THEN ret
    ELSE IF request.kind = "single" THEN SingleSuccess
    ELSE BatchSuccess

\* get_db_session: finally: session.close(); then the handler answers.
SessionClose ==
    /\ UNCHANGED pureVars
    /\ pc = "close"
    /\ session' = Closed(session)
    /\ response' = Answer
    /\ pc' = "done"
    /\ UNCHANGED <<db, dbBefore, request, embedding_list, results, successful_updates,
                   idx, faults, itemFaults, exc, ret>>

\* The response is sent and the request's frame is gone; the table stays.
Finish ==
    /\ UNCHANGED pureVars
    /\ pc = "done"
    /\ pc' = "idle"
    /\ request' = NoRequest
    /\ dbBefore' = db
    /\ session' = NoSession
    /\ embedding_list' = NullEmbedding
    /\ results' = <<>>
    /\ successful_updates' = 0
    /\ idx' = 1
    /\ faults' = {}
    /\ itemFaults' = {}
    /\ exc' = "none"
    /\ ret' = NoResponse
    /\ response' = NoResponse
    /\ UNCHANGED db

-----------------------------------------------------------------------------
(* The service: one request at a time against the articles table *)

InitialRows == [k \in StoredIds |-> Row(NullEmbedding, "pending", "c")]

NoCall == [pc |-> "none"]

StoreInit ==
    /\ db = InitialRows
    /\ dbBefore = InitialRows
    /\ request = NoRequest
    /\ pc = "idle"
    /\ session = NoSession
    /\ embedding_list = NullEmbedding
    /\ results = <<>>
    /\ successful_updates = 0
    /\ idx = 1
    /\ faults = {}
    /\ itemFaults = {}
    /\ exc = "none"
    /\ ret = NoResponse
    /\ response = NoResponse

Init ==
    /\ StoreInit
    /\ scorer = NoCall
    /\ normalizer = NoCall
    /\ classify = NoCall
    /\ embed = NoCall

Next ==
    \/ EmbedAndStore
    \/ \E fail \in BOOLEAN : StoreLookup(fail)
    \/ \E fail \in BOOLEAN : StoreCommit(fail)
    \/ EmbedAndStoreBatch
    \/ \E fail \in BOOLEAN : BatchItem(fail)
    \/ \E fail \in BOOLEAN : BatchCommit(fail)
    \/ \E fail \in BOOLEAN : SessionExit(fail)
    \/ SessionRollback
    \/ SessionClose
    \/ Finish

Spec == Init /\ [][Next]_vars

-----------------------------------------------------------------------------
(* Properties of the persistence handlers *)

BatchDone ==
    /\ pc = "done"
    /\ request.kind = "batch"
    /\ request.haskey /\ request.islist /\ request.articles # <<>>

SingleDone == pc = "done" /\ request.kind = "single"

Positions == IF request.kind = "batch" THEN DOMAIN request.articles ELSE {}

\* The element at position i has an id, a non-blank text, a well-formed id
\* that names a stored row, and its lookup did not raise.
ItemValid(i) ==
    LET item == request.articles[i]
    IN  /\ item.isobj
        /\ item.id # NoneVal
        /\ ItemText(item) # ""
        /\ UUID(item.id) \in StoredIds
        /\ i \notin itemFaults

SetMax(S) == CHOOSE x \in S : \A y \in S : y <= x

\* C2: in the batch handler an item-level failure (missing id, blank text,
\* malformed UUID, no such record, a lookup that raised) becomes an error
\* entry and does not abort the batch: when every element is an object and no
\* commit fails, the answer is 200, every valid item is reported as success
\* and its row carries its embedding with status success, every other row is
\* as before, and successful_updates counts the valid items.
C2_ItemFailuresIsolated ==
    (BatchDone /\ faults = {} /\ \A i \in Positions : request.articles[i].isobj) =>
        /\ response.status = 200
        /\ Len(response.results) = Len(request.articles)
        /\ \A i \in Positions :
              response.results[i].status = IF ItemValid(i) THEN "success" ELSE "error"
        /\ response.successful_updates = Cardinality({i \in Positions : ItemValid(i)})
        /\ \A k \in StoredIds :
              LET hits == {i \in Positions : ItemValid(i) /\ UUID(request.articles[i].id) = k}
              IN  IF hits = {}
                    THEN db[k] = dbBefore[k]
                  ELSE db[k] = [dbBefore[k] EXCEPT
                                  !.embedding = Encode(ItemText(request.articles[SetMax(hits)])),
                                  !.embedding_status = "success"]

\* One malformed id and one valid item: the valid update is committed, count 1.
C2_Witness ==
    /\ BatchDone
    /\ request.articles = <<Item("not-a-uuid", "a"), Item("k2", " b ")>>
    /\ response.status = 200
    /\ response.successful_updates = 1
    /\ response.results[1].status = "error"
    /\ db["k2"].embedding = Encode("b")
    /\ db["k2"].embedding_status = "success"

\* C3: when the commit after the batch loop fails, the answer is the storage
\* error (500, no result list), the transaction is rolled back and no row of
\* the table differs from before the call.
C3_BatchCommitFailure ==
    (BatchDone /\ "commit" \in faults) =>
        /\ response = ErrorResponse(500, "Database error")
        /\ session.ended = "rolledback"
        /\ db = dbBefore

\* The commit failed after an item had been processed successfully.
C3_Witness ==
    /\ BatchDone
    /\ "commit" \in faults
    /\ successful_updates >= 1
    /\ response.status = 500

\* The single request names a well-formed id that matches no row, with a
\* non-blank text.
SingleNoRecord ==
    /\ request.kind = "single"
    /\ UUID(request.article_id) \notin StoredIds \cup {"ValueError"}
    /\ request.text # NoneVal
    /\ Strip(request.text) # ""

\* C4: the single handler, given a well-formed id that matches no row and a
\* non-blank text, never changes the table, and answers 404 (when the storage
\* raises nothing).
C4_NotFoundNoMutation ==
    SingleNoRecord =>
        /\ db = dbBefore
        /\ (pc = "done" /\ faults = {}) => response = ErrorResponse(404, "Article not found")

C4_Witness ==
    /\ SingleNoRecord
    /\ pc = "done"
    /\ response.status = 404
    /\ session.state = "closed"

\* C5: in the single handler a storage failure during the lookup or a commit
\* gives the 500 "Database error" answer with the transaction rolled back and
\* the table as before the call; and at every moment the target row is either
\* as before the call or has both fields of the update.
C5_StorageErrorRollsBack ==
    /\ (SingleDone /\ faults # {}) =>
          /\ response = ErrorResponse(500, "Database error")
          /\ session.ended = "rolledback"
          /\ db = dbBefore
    /\ (request.kind = "single" /\ UUID(request.article_id) \in StoredIds) =>
          LET k == UUID(request.article_id)
          IN  \/ db[k] = dbBefore[k]
              \/ db[k] = [dbBefore[k] EXCEPT !.embedding = embedding_list,
                                              !.embedding_status = "success"]

\* The commit of an update failed.
C5_Witness ==
    /\ SingleDone
    /\ faults = {"commit"}
    /\ session.dirty = {}
    /\ response.status = 500

\* A step of the request that holds the session.
HandlerStep ==
    \/ \E fail \in BOOLEAN : StoreLookup(fail)
    \/ \E fail \in BOOLEAN : StoreCommit(fail)
    \/ \E fail \in BOOLEAN : BatchItem(fail)
    \/ \E fail \in BOOLEAN : BatchCommit(fail)
    \/ \E fail \in BOOLEAN : SessionExit(fail)
    \/ SessionRollback
    \/ SessionClose

\* C6: a session acquired through get_db_session is open exactly while the
\* request is inside the with statement, where the request can always take
\* its next step; once the statement is left the session is closed after a
\* commit or a rollback, and after a rollback when an exception left the block.
C6_SessionScoped ==
    /\ (pc \in {"lookup", "commit", "loop", "bcommit", "exit", "rollback", "close"}) =>
          (session.state = "open" /\ ENABLED HandlerStep)
    /\ (pc = "close") => session.ended \in {"committed", "rolledback"}
    /\ (pc \in {"idle", "done"}) => session.state \in {"none", "closed"}
    /\ (pc = "done" /\ session.state # "none") =>
          /\ session.state = "closed"
          /\ session.ended \in {"committed", "rolledback"}
          /\ (exc # "none") => session.ended = "rolledback"
          /\ (exc = "none") => session.ended = "committed"

\* An exception left the with block and the session ended rolled back and closed.
C6_Witness ==
    /\ pc = "done"
    /\ exc = "Exception"
    /\ session.state = "closed"
    /\ session.ended = "rolledback"

\* The request in progress (or just answered) names row k in an item the
\* handler took as a success: the single handler's path parameter, or an
\* entry of the batch handler's results list with status success.
Targeted(k) ==
    \/ /\ request.kind = "single"
       /\ UUID(request.article_id) = k
    \/ /\ request.kind = "batch"
       /\ \E i \in DOMAIN results :
             /\ results[i].status = "success"
             /\ UUID(request.articles[i].id) = k

\* The answer reports row k as updated.
ReportedSuccess(k) ==
    /\ response.status = 200
    /\ \/ /\ request.kind = "single"
          /\ UUID(response.article_id) = k
          /\ response.embedding_status = "success"
       \/ /\ request.kind = "batch"
          /\ \E i \in DOMAIN response.results :
                /\ response.results[i].status = "success"
                /\ UUID(response.results[i].article_id) = k

SuccessEntries ==
    {i \in DOMAIN response.results : response.results[i].status = "success"}

\* C13: a batch answered with 200 carries one entry per submitted item, in
\* submission order (each entry names its item's id as submitted),
\* total_articles is the number of submitted items and successful_updates the
\* number of entries with status success; an id occurring several times is
\* counted once per occurrence and its row holds the embedding of the last
\* successful occurrence.
C13_BatchResultShape ==
    (BatchDone /\ response.status = 200) =>
        /\ Len(response.results) = Len(request.articles)
        /\ \A i \in DOMAIN response.results :
              response.results[i].article_id = request.articles[i].id
        /\ response.total_articles = Len(request.articles)
        /\ response.successful_updates = Cardinality(SuccessEntries)
        /\ \A k \in StoredIds :
              LET occurrences ==
                      {i \in SuccessEntries : UUID(request.articles[i].id) = k}
              IN  occurrences # {} =>
                      db[k].embedding =
                          Encode(ItemText(request.articles[SetMax(occurrences)]))

\* The same article twice, its id spelled in two ways: both occurrences are
\* counted and the second one's embedding is stored.
C13_Witness ==
    /\ BatchDone
    /\ request.articles = <<Item("k1", "a"), Item("K1", " b ")>>
    /\ response.status = 200
    /\ response.total_articles = 2
    /\ response.successful_updates = 2
    /\ db["k1"].embedding = Encode("b")

-----------------------------------------------------------------------------
(* Strings as sequences of characters *)

Whitespace == {" ", "\n"}

\* pat repeated n times
Rep(pat, n) == [i \in 1..(n * Len(pat)) |-> pat[((i - 1) % Len(pat)) + 1]]

RECURSIVE FirstNonSpace(_, _)
FirstNonSpace(s, i) ==
    IF i > Len(s) THEN i
    ELSE IF s[i] \in Whitespace THEN FirstNonSpace(s, i + 1) ELSE i

RECURSIVE LastNonSpace(_, _)
LastNonSpace(s, i) ==
    IF i < 1 THEN i
    ELSE IF s[i] \in Whitespace THEN LastNonSpace(s, i - 1) ELSE i

\* str.strip()
StripChars(s) == SubSeq(s, FirstNonSpace(s, 1), LastNonSpace(s, Len(s)))

\* len(str.split()): the number of maximal runs of non-whitespace characters
SplitCount(s) ==
    Cardinality({i \in 1..Len(s) : s[i] \notin Whitespace /\ (i = 1 \/ s[i - 1] \in Whitespace)})

-----------------------------------------------------------------------------
(* app.py: calculate_article_score.  Scores are in units of 1/One. *)

\* 1.0
One == 10000

\* Factor 1: the adjustment for text_length = len(original_text.strip())
LengthDeltaInclusive(text_length) ==
    IF text_length > 1000 THEN 3000
    ELSE IF text_length >= 500 THEN 2000
    ELSE IF text_length >= 200 THEN 1000
    ELSE IF text_length < 50 THEN -2000
    ELSE 0
LengthDelta(text_length) ==
    IF text_length > 1000 THEN 3000
    ELSE IF text_length > 500 THEN 2000
    ELSE IF text_length > 200 THEN 1000
    ELSE IF text_length < 50 THEN -2000
    ELSE 0

\* Factor 2: the adjustment for word_count = len(original_text.split())
WordDelta(word_count) ==
    IF word_count > 200 THEN 2000
    ELSE IF word_count > 100 THEN 1000
    ELSE IF word_count < 20 THEN -1000
    ELSE 0

\* An element of sentiment_result[0].  isdict: it is a mapping; haslabel,
\* hasscore: it has the key.
Entry(label, score) ==
    [isdict |-> TRUE, haslabel |-> TRUE, hasscore |-> TRUE, label |-> label, score |-> score]
NotADict == [isdict |-> FALSE, haslabel |-> FALSE, hasscore |-> FALSE, label |-> "", score |-> 0]
NoLabel == [isdict |-> TRUE, haslabel |-> FALSE, hasscore |-> TRUE, label |-> "", score |-> 9000]
NoScore(label) ==
    [isdict |-> TRUE, haslabel |-> TRUE, hasscore |-> FALSE, label |-> label, score |-> 0]

\* result['label'] or result['score'] raises (TypeError or KeyError)
EntryRaises(result) ==
    \/ ~result.isdict
    \/ ~result.haslabel
    \/ result.label \in {"POSITIVE", "NEGATIVE"} /\ ~result.hasscore

\* Factor 3, one iteration of `for result in sentiment_result[0]:`
EntryDelta(result) ==
    IF result.label = "POSITIVE" THEN ((result.score - 5000) * 3) \div 10
    ELSE IF result.label = "NEGATIVE" /\ result.score > 8000 THEN -1000
    ELSE 0

RECURSIVE SumDeltas(_)
SumDeltas(entries) ==
    IF entries = <<>> THEN 0 ELSE EntryDelta(Head(entries)) + SumDeltas(Tail(entries))

\* Factor 3: the loop is skipped when sentiment_result is empty.
SentimentRaises(sentiment_result) ==
    /\ sentiment_result # <<>>
    /\ \E i \in DOMAIN sentiment_result[1] : EntryRaises(sentiment_result[1][i])

SentimentDelta(sentiment_result) ==
    IF sentiment_result = <<>> THEN 0 ELSE SumDeltas(sentiment_result[1])

structure_indicators == {".", "!", "?", ":", ";", ","}

\* sum(original_text.count(indicator) for indicator in structure_indicators)
StructureCount(text) == Cardinality({i \in 1..Len(text) : text[i] \in structure_indicators})

\* Factor 4
StructureDelta(structure_count) ==
    IF structure_count > 10 THEN 1000
    ELSE IF structure_count > 5 THEN 500
    ELSE 0

Unclamped(x) == x
\* max(0.0, min(1.0, x))
Clamp(x) == IF x > One THEN One ELSE IF x < 0 THEN 0 ELSE x

ScoreCall(text, sentiment_result) ==
    [pc |-> "start", original_text |-> text, sentiment_result |-> sentiment_result,
     base_score |-> 0, result |-> 0]

Factor1Length ==
    /\ scorer.pc = "start"
    /\ scorer' = [scorer EXCEPT
                     !.base_score = @ + LengthDelta(Len(StripChars(scorer.original_text))),
                     !.pc = "factor2"]
    /\ UNCHANGED <<storeVars, normalizer, classify, embed>>

Factor2Words ==
    /\ scorer.pc = "factor2"
    /\ scorer' = [scorer EXCEPT
                     !.base_score = @ + WordDelta(SplitCount(scorer.original_text)),
                     !.pc = "factor3"]
    /\ UNCHANGED <<storeVars, normalizer, classify, embed>>

Factor3Sentiment ==
    /\ scorer.pc = "factor3"
    /\ scorer' = IF SentimentRaises(scorer.sentiment_result)
                   THEN [scorer EXCEPT !.pc = "raised"]
                 ELSE [scorer EXCEPT
                         !.base_score = @ + SentimentDelta(scorer.sentiment_result),
                         !.pc = "factor4"]
    /\ UNCHANGED <<storeVars, normalizer, classify, embed>>

Factor4Return ==
    /\ scorer.pc = "factor4"
    /\ scorer' = [scorer EXCEPT
                     !.base_score = @ + StructureDelta(StructureCount(scorer.original_text)),
                     !.result = Clamp(scorer.base_score
                                        + StructureDelta(StructureCount(scorer.original_text))
                                        + 5000),
                     !.pc = "returned"]
    /\ UNCHANGED <<storeVars, normalizer, classify, embed>>

\* Longest inner list of a classification result.
MaxEntries == 2

LengthSamples == {0, 1, 49, 50, 51, 199, 200, 201, 499, 500, 501, 999, 1000, 1001}
WordSamples == {19, 20, 21, 100, 101, 200, 201}
StructureSamples == {5, 6, 10, 11}

\* Texts whose stripped length, word count and punctuation count sit on and
\* beside every threshold, with and without surrounding whitespace.
ScoreTexts ==
    {Rep(<<"a">>, n) : n \in LengthSamples}
        \cup {<<" ">> \o Rep(<<"a">>, n) \o <<" ", "\n">> : n \in {49, 500, 1000}}
        \cup {Rep(<<"a", " ">>, n) : n \in WordSamples}
        \cup {Rep(<<"a", ".">>, n) : n \in StructureSamples}
        \cup {Rep(<<"a", ",", " ">>, 400)}

ScoreSamples == {0, 5000, 8000, 10000}

EntryInputs ==
    {Entry("POSITIVE", x) : x \in ScoreSamples}
        \cup {Entry("NEGATIVE", x) : x \in ScoreSamples}
        \cup {Entry("NEUTRAL", 5000), NotADict, NoLabel, NoScore("POSITIVE"), NoScore("NEGATIVE")}

\* sentiment_result: empty, or a list holding one inner list of entries.
SentimentInputs == {<<>>} \cup {<<inner>> : inner \in SeqsUpTo(EntryInputs, MaxEntries)}

ScoreInit ==
    /\ StoreInit
    /\ scorer \in {ScoreCall(t, sr) : t \in ScoreTexts, sr \in SentimentInputs}
    /\ normalizer = NoCall
    /\ classify = NoCall
    /\ embed = NoCall

ScoreNext ==
    \/ Factor1Length
    \/ Factor2Words
    \/ Factor3Sentiment
    \/ Factor4Return

SpecScore == ScoreInit /\ [][ScoreNext]_vars

-----------------------------------------------------------------------------
(* Properties of the scorer *)

WellFormed(sentiment_result) == ~SentimentRaises(sentiment_result)

\* C1: for every text and every classification result that is empty or holds
\* label/score entries, calculate_article_score returns, and its value is in
\* [0.0, 1.0] whatever the accumulated base_score is.
C1_ScoreInUnitRange ==
    /\ (scorer.pc = "returned") => (0 <= scorer.result /\ scorer.result <= One)
    /\ (scorer.pc = "raised") => ~WellFormed(scorer.sentiment_result)

\* The accumulated score lies above 1 and the returned value is 1.
C1_Witness ==
    /\ scorer.pc = "returned"
    /\ scorer.base_score + 5000 > One
    /\ scorer.result = One

text_length == Len(StripChars(scorer.original_text))

\* C8 as amended: after factor 1, base_score is +0.3 for a stripped length
\* above 1000, +0.2 for 501..1000, +0.1 for 201..500, 0 for 50..200 and -0.2
\* below 50; at exactly 1000, 500, 200 and 50 it is +0.2, +0.1, 0 and 0.
C8_LengthBands ==
    (scorer.pc = "factor2") =>
        scorer.base_score =
            CASE text_length > 1000 -> 3000
              [] text_length > 500 /\ text_length <= 1000 -> 2000
              [] text_length > 200 /\ text_length <= 500 -> 1000
              [] text_length >= 50 /\ text_length <= 200 -> 0
              [] text_length < 50 -> -2000

\* The text is 500 characters between surrounding whitespace: +0.1.
C8_Witness ==
    /\ scorer.pc = "factor2"
    /\ Len(scorer.original_text) > 500
    /\ text_length = 500
    /\ scorer.base_score = 1000

\* C8 as claimed: the bands with their bounds as written, first match from the
\* top: +0.3 above 1000, +0.2 for 500..1000, +0.1 for 200..500, -0.2 below 50.
C8_BandsAsWritten ==
    (scorer.pc = "factor2") =>
        scorer.base_score =
            CASE text_length > 1000 -> 3000
              [] text_length >= 500 /\ text_length <= 1000 -> 2000
              [] text_length >= 200 /\ text_length < 500 -> 1000
              [] text_length >= 50 /\ text_length < 200 -> 0
              [] text_length < 50 -> -2000

\* The classification result is empty, holds an empty inner list, or holds
\* only entries that are no label/score records or carry no POSITIVE or
\* NEGATIVE label.
EmptyOrMalformed(sentiment_result) ==
    \/ sentiment_result = <<>>
    \/ \A i \in DOMAIN sentiment_result[1] :
          LET result == sentiment_result[1][i]
          IN  \/ ~result.isdict
              \/ ~result.haslabel
              \/ result.label \notin {"POSITIVE", "NEGATIVE"}

\* C9 as claimed: with an empty or malformed classification result the call
\* returns, and returns clamp(0.5 + length + word + punctuation adjustments).
C9_MalformedContributesZero ==
    (scorer.pc \in {"raised", "returned"} /\ EmptyOrMalformed(scorer.sentiment_result)) =>
        /\ scorer.pc = "returned"
        /\ scorer.result =
              Clamp(5000 + LengthDelta(text_length)
                         + WordDelta(SplitCount(scorer.original_text))
                         + StructureDelta(StructureCount(scorer.original_text)))

-----------------------------------------------------------------------------
(* app.py: clean_text_for_classification *)

\* The elements of s at the positions where keep is TRUE, in order.
RECURSIVE Pick(_, _, _, _)
Pick(s, keep, lo, hi) ==
    IF lo > hi THEN <<>>
    ELSE IF lo = hi THEN (IF keep[lo] THEN <<s[lo]>> ELSE <<>>)
    ELSE LET mid == (lo + hi) \div 2
         IN  Pick(s, keep, lo, mid) \o Pick(s, keep, mid + 1, hi)

\* re.sub(r'\s+', ' ', s): every run of whitespace becomes one space.
CollapseWhitespace(s) ==
    LET spaced == [i \in 1..Len(s) |-> IF s[i] \in Whitespace THEN " " ELSE s[i]]
        keep == [i \in 1..Len(s) |-> ~(s[i] \in Whitespace /\ i > 1 /\ s[i - 1] \in Whitespace)]
    IN  Pick(spaced, keep, 1, Len(s))

\* The character class of the URL pattern, on ASCII: letters, digits, the
\* range $-_ (which holds % / : @ . and the other punctuation between them),
\* and ! * \ ( ) and the comma; not whitespace, the double quote, #, the
\* backtick, { | } ~.
UrlChar(c) == c \notin Whitespace \cup {"#", "{", "|", "}", "~"}

StartsWith(s, i, prefix) ==
    /\ i + Len(prefix) - 1 <= Len(s)
    /\ \A j \in 1..Len(prefix) : s[i + j - 1] = prefix[j]

\* The URL pattern matches at i: http, an optional s, ://, one or more
\* characters of the class.
UrlStart(s, i) ==
    \/ StartsWith(s, i, <<"h", "t", "t", "p", ":", "/", "/">>)
          /\ i + 7 <= Len(s) /\ UrlChar(s[i + 7])
    \/ StartsWith(s, i, <<"h", "t", "t", "p", "s", ":", "/", "/">>)
          /\ i + 8 <= Len(s) /\ UrlChar(s[i + 8])

\* re.sub(url pattern, '', s).  A match runs from its start to the end of the
\* run of class characters around it (the prefix is made of class characters),
\* so position k is removed iff a start at or before k reaches k unbroken.
RemoveUrls(s) ==
    LET starts == {i \in 1..Len(s) : UrlStart(s, i)}
        breaks == {j \in 1..Len(s) : ~UrlChar(s[j])}
        keep == [k \in 1..Len(s) |->
                    ~\E i \in starts : i <= k /\ \A b \in breaks : b < i \/ b > k]
    IN  Pick(s, keep, 1, Len(s))

\* re.sub(r'\S+@\S+', '', s).  A match covers a whole run of non-whitespace
\* that holds an @ with a character of the run on each side.
RemoveEmails(s) ==
    LET ats == {j \in 2..(Len(s) - 1) :
                    s[j] = "@" /\ s[j - 1] \notin Whitespace /\ s[j + 1] \notin Whitespace}
        spaces == {b \in 1..Len(s) : s[b] \in Whitespace}
        keep == [k \in 1..Len(s) |->
                    ~\E j \in ats :
                        \A b \in spaces : (b < j /\ b < k) \/ (b > j /\ b > k)]
    IN  Pick(s, keep, 1, Len(s))

\* if len(text) > 500: text = text[:400] + " " + text[-100:]
Truncate(s) ==
    IF Len(s) > 500
      THEN SubSeq(s, 1, 400) \o <<" ">> \o SubSeq(s, Len(s) - 99, Len(s))
    ELSE s

clean_text_for_classification(text) ==
    StripChars(Truncate(RemoveEmails(RemoveUrls(CollapseWhitespace(StripChars(text))))))

\* Most words of a generated text.
MaxWords == 3

Chars(str) ==
    CASE str = "a"         -> <<"a">>
      [] str = "http://x"  -> <<"h", "t", "t", "p", ":", "/", "/", "x">>
      [] str = "https://x" -> <<"h", "t", "t", "p", "s", ":", "/", "/", "x">>
      [] str = "http://"   -> <<"h", "t", "t", "p", ":", "/", "/">>
      [] str = "b@c"       -> <<"b", "@", "c">>
      [] str = "@"         -> <<"@">>
      [] str = "#"         -> <<"#">>

WordInputs == {Chars(w) : w \in {"a", "http://x", "https://x", "http://", "b@c", "@", "#"}}

SeparatorInputs == {<<>>, <<" ">>, <<"\n", " ">>}

RECURSIVE Join(_, _)
Join(words, sep) ==
    IF words = <<>> THEN <<>>
    ELSE IF Len(words) = 1 THEN words[1]
    ELSE words[1] \o sep \o Join(Tail(words), sep)

\* Texts around the truncation threshold.
LongTexts ==
    {Rep(<<"a">>, 500), Rep(<<"a">>, 501), Rep(<<"a", " ">>, 300),
     Rep(<<"a">>, 450) \o Chars("http://x") \o <<" ">> \o Rep(<<"a">>, 100),
     Rep(<<"a">>, 399) \o <<" ">> \o Rep(<<"a">>, 101)}

NormalizerInputs ==
    {pad \o Join(words, sep) \o pad :
        words \in SeqsUpTo(WordInputs, MaxWords),
        sep \in SeparatorInputs,
        pad \in {<<>>, <<" ">>}}
      \cup LongTexts

\* cleaned = clean_text_for_classification(x)
CleanOnce ==
    /\ normalizer.pc = "start"
    /\ normalizer' = [normalizer EXCEPT
                         !.once = clean_text_for_classification(normalizer.x),
                         !.pc = "once"]
    /\ UNCHANGED <<storeVars, scorer, classify, embed>>

\* clean_text_for_classification(cleaned)
CleanTwice ==
    /\ normalizer.pc = "once"
    /\ normalizer' = [normalizer EXCEPT
                         !.twice = clean_text_for_classification(normalizer.once),
                         !.pc = "twice"]
    /\ UNCHANGED <<storeVars, scorer, classify, embed>>

NormInit ==
    /\ StoreInit
    /\ scorer = NoCall
    /\ normalizer \in {[pc |-> "start", x |-> x, once |-> <<>>, twice |-> <<>>] :
                            x \in NormalizerInputs}
    /\ classify = NoCall
    /\ embed = NoCall

NormNext ==
    \/ CleanOnce
    \/ CleanTwice

SpecNorm == NormInit /\ [][NormNext]_vars

\* C10 as claimed: normalizing a normalized text changes nothing.
C10_NormalizeIdempotent ==
    (normalizer.pc = "twice") => normalizer.twice = normalizer.once

-----------------------------------------------------------------------------
(* app.py: classify_batch_content *)

\* The value of calculate_article_score when it returns.
calculate_article_score(original_text, sentiment_result) ==
    Clamp(LengthDelta(Len(StripChars(original_text)))
            + WordDelta(SplitCount(original_text))
            + SentimentDelta(sentiment_result)
            + StructureDelta(StructureCount(original_text))
            + 5000)

\* original_text[:100] + "..." if len(original_text) > 100 else original_text
Display(original_text) ==
    IF Len(original_text) > 100
      THEN SubSeq(original_text, 1, 100) \o <<".", ".", ".">>
    ELSE original_text

\* `if text and text.strip()`
NonBlank(text) == text # <<>> /\ StripChars(text) # <<>>

\* original_indices: the 0-based positions of the non-blank texts, ascending.
RECURSIVE OriginalIndices(_, _)
OriginalIndices(texts, i) ==
    IF i > Len(texts) THEN <<>>
    ELSE (IF NonBlank(texts[i]) THEN <<i - 1>> ELSE <<>>) \o OriginalIndices(texts, i + 1)

\* clean_texts
CleanTexts(texts) ==
    LET original_indices == OriginalIndices(texts, 1)
    IN  [i \in 1..Len(original_indices) |->
            clean_text_for_classification(StripChars(texts[original_indices[i] + 1]))]

LoopIndex(original_indices, i) == i - 1
\* "index": original_indices[i], for the i-th element of clean_texts (1-based here)
ResultIndex(original_indices, i) == original_indices[i]

\* The results list, given what the classifier answers for each cleaned text.
BatchResults(texts, classifier) ==
    LET original_indices == OriginalIndices(texts, 1)
        clean_texts == CleanTexts(texts)
    IN  [i \in 1..Len(clean_texts) |->
            LET original_text == texts[original_indices[i] + 1]
                article_score == calculate_article_score(original_text, classifier[clean_texts[i]])
            IN  [text |-> Display(original_text),
                 is_article |-> article_score > 5000,
                 confidence |-> article_score,
                 index |-> ResultIndex(original_indices, i)]]

\* Longest texts list submitted to /classify/batch.
MaxTexts == 3

ClassifyTextInputs ==
    {<<>>, <<" ">>, <<"v", "1">>, <<" ", "v", "2", ".", " ">>, Chars("http://x"),
     Rep(<<"a", " ">>, 60)}

\* What the sentiment pipeline answers: one inner list with both labels.
ClassifierOutputs ==
    {<<<<Entry("NEGATIVE", 10000 - x), Entry("POSITIVE", x)>>>> : x \in {1000, 9000}}

\* A request body: haskey: it has a texts field; islist: the field is a list.
ClassifyRequest(haskey, islist, texts) == [haskey |-> haskey, islist |-> islist, texts |-> texts]

ClassifyInputs ==
    {ClassifyRequest(TRUE, TRUE, texts) : texts \in SeqsUpTo(ClassifyTextInputs, MaxTexts)}
        \cup {ClassifyRequest(FALSE, FALSE, <<>>), ClassifyRequest(TRUE, FALSE, <<>>)}

ClassifyBatchContent ==
    /\ classify.pc = "idle"
    /\ \E req \in ClassifyInputs :
         LET clean_texts == CleanTexts(req.texts)
             Answered(resp) == classify' = [pc |-> "done", request |-> req, response |-> resp]
         IN  IF ~req.haskey
               THEN Answered(ErrorResponse(400, "Missing 'texts' field in request"))
             ELSE IF ~req.islist \/ req.texts = <<>>
               THEN Answered(ErrorResponse(400, "Empty or invalid texts list"))
             ELSE IF clean_texts = <<>>
               THEN Answered(ErrorResponse(400, "No valid texts provided"))
             ELSE \E classifier \in [{clean_texts[i] : i \in DOMAIN clean_texts}
                                        -> ClassifierOutputs] :
                    LET entries == BatchResults(req.texts, classifier)
                    IN  Answered([status |-> 200, results |-> entries,
                                  count |-> Len(entries), processed |-> Len(clean_texts)])
    /\ UNCHANGED <<storeVars, scorer, normalizer, embed>>

\* The response is sent.
ClassifyFinish ==
    /\ classify.pc = "done"
    /\ classify' = [pc |-> "idle"]
    /\ UNCHANGED <<storeVars, scorer, normalizer, embed>>

ClassifyInit ==
    /\ StoreInit
    /\ scorer = NoCall
    /\ normalizer = NoCall
    /\ classify = [pc |-> "idle"]
    /\ embed = NoCall

ClassifyNext ==
    \/ ClassifyBatchContent
    \/ ClassifyFinish

SpecClassify == ClassifyInit /\ [][ClassifyNext]_vars

\* The 1-based positions of the non-blank texts of the finished request.
NonBlankPositions ==
    {i \in DOMAIN classify.request.texts : StripChars(classify.request.texts[i]) # <<>>}

\* C7: for a texts list with at least one non-blank entry the batch
\* classifier answers 200 with exactly one result per non-blank text, in
\* ascending input order, each carrying its text's 0-based position in the
\* submitted list (and that text's display form); blank entries have none.
C7_PositionalCorrespondence ==
    (classify.pc = "done" /\ classify.request.islist /\ NonBlankPositions # {}) =>
        LET entries == classify.response.results
        IN  /\ classify.response.status = 200
            /\ Len(entries) = Cardinality(NonBlankPositions)
            /\ \A k \in DOMAIN entries :
                  /\ entries[k].index + 1 \in NonBlankPositions
                  /\ entries[k].text = Display(classify.request.texts[entries[k].index + 1])
                  /\ k > 1 => entries[k - 1].index < entries[k].index

\* ["", "valid one", "valid two"]: the results carry indices 1 and 2 only.
C7_Witness ==
    /\ classify.pc = "done"
    /\ classify.request.texts = <<<<>>, <<"v", "1">>, <<" ", "v", "2", ".", " ">>>>
    /\ Len(classify.response.results) = 2
    /\ classify.response.results[1].index = 1
    /\ classify.response.results[2].index = 2

-----------------------------------------------------------------------------
(* app.py: generate_batch_embeddings *)

Untrimmed(text) == text
\* text.strip(): the element expression of the clean_texts comprehension
Trimmed(text) == StripChars(text)

\* clean_texts = [text.strip() for text in texts if text and text.strip()]
RECURSIVE EmbedCleanTexts(_)
EmbedCleanTexts(texts) ==
    IF texts = <<>> THEN <<>>
    ELSE (IF NonBlank(Head(texts)) THEN <<Trimmed(Head(texts))>> ELSE <<>>)
            \o EmbedCleanTexts(Tail(texts))

\* model.encode(clean_texts) and the tolist() of each row: one call over the
\* whole list, one vector per text, in order.
EncodeAll(clean_texts) == [i \in DOMAIN clean_texts |-> Encode(clean_texts[i])]

EmbedTextInputs ==
    {<<>>, <<" ">>, <<"\n", " ">>, <<"v", "1">>, <<" ", "v", "2", ".", " ">>,
     <<"a", " ", "b", "\n">>}

\* A request body: haskey: it has a texts field; islist: the field is a list.
EmbedRequest(haskey, islist, texts) == [haskey |-> haskey, islist |-> islist, texts |-> texts]

EmbedInputs ==
    {EmbedRequest(TRUE, TRUE, texts) : texts \in SeqsUpTo(EmbedTextInputs, MaxTexts)}
        \cup {EmbedRequest(FALSE, FALSE, <<>>), EmbedRequest(TRUE, FALSE, <<>>)}

\* raised: the sentence-transformer raises inside model.encode.
GenerateBatchEmbeddings ==
    /\ embed.pc = "idle"
    /\ \E req \in EmbedInputs, raised \in BOOLEAN :
         LET clean_texts == EmbedCleanTexts(req.texts)
             embeddings_list == EncodeAll(clean_texts)
             Answered(resp, r) ==
                 embed' = [pc |-> "done", request |-> req, raised |-> r, response |-> resp]
         IN  IF ~req.haskey
               THEN Answered(ErrorResponse(400, "Missing 'texts' field in request"), FALSE)
             ELSE IF ~req.islist \/ req.texts = <<>>
               THEN Answered(ErrorResponse(400, "Empty or invalid texts list"), FALSE)
             ELSE IF clean_texts = <<>>
               THEN Answered(ErrorResponse(400, "No valid texts provided"), FALSE)
             ELSE IF raised
               THEN Answered(ErrorResponse(500, "Internal server error"), TRUE)
             ELSE Answered([status |-> 200,
                            texts |-> clean_texts,
                            embeddings |-> embeddings_list,
                            count |-> Len(embeddings_list),
                            dimension |-> IF embeddings_list # <<>>
                                            THEN embeddings_list[1].dim
                                          ELSE 0],
                           FALSE)
    /\ UNCHANGED <<storeVars, scorer, normalizer, classify>>

\* The response is sent.
EmbedFinish ==
    /\ embed.pc = "done"
    /\ embed' = [pc |-> "idle"]
    /\ UNCHANGED <<storeVars, scorer, normalizer, classify>>

EmbedInit ==
    /\ StoreInit
    /\ scorer = NoCall
    /\ normalizer = NoCall
    /\ classify = NoCall
    /\ embed = [pc |-> "idle"]

EmbedNext ==
    \/ GenerateBatchEmbeddings
    \/ EmbedFinish

SpecEmbed == EmbedInit /\ [][EmbedNext]_vars

\* A finished request whose texts field is a non-empty list and whose
\* encoder call, if any, did not raise.
EmbedProper ==
    /\ embed.pc = "done"
    /\ embed.request.haskey /\ embed.request.islist /\ embed.request.texts # <<>>
    /\ ~embed.raised

\* The 1-based positions of the entries that are not blank.
Survivors ==
    {i \in DOMAIN embed.request.texts : StripChars(embed.request.texts[i]) # <<>>}

\* The position of the k-th survivor in submission order.
Survivor(k) == CHOOSE i \in Survivors : Cardinality({j \in Survivors : j <= i}) = k

\* The answer for a list with survivors: the trimmed survivors in submission
\* order, each aligned with its own vector, count the number of survivors
\* and dimension the length of a vector.
SurvivorsAnswered ==
    LET resp == embed.response
    IN  /\ resp.status = 200
        /\ resp.count = Cardinality(Survivors)
        /\ Len(resp.texts) = resp.count
        /\ Len(resp.embeddings) = resp.count
        /\ \A k \in 1..resp.count :
              /\ resp.texts[k] = StripChars(embed.request.texts[Survivor(k)])
              /\ resp.embeddings[k] = Encode(resp.texts[k])
              /\ resp.dimension = resp.embeddings[k].dim

\* C11 (as amended): given a non-empty list, the batch embedder answers the
\* trimmed non-blank entries in submission order, aligned position by
\* position with their vectors, count being the number of survivors and
\* dimension the vector length; when every entry is blank it answers 400
\* "No valid texts provided" and no vector is computed or indexed.
C11_SurvivorsAlignedOrRejected ==
    EmbedProper =>
        IF Survivors = {}
          THEN embed.response = ErrorResponse(400, "No valid texts provided")
        ELSE SurvivorsAnswered

\* ["", " v2. ", " ", "v1"] with one blank dropped in the middle.
C11_Witness ==
    /\ embed.pc = "done"
    /\ embed.request.texts = <<<<" ">>, <<" ", "v", "2", ".", " ">>, <<"v", "1">>>>
    /\ embed.response.status = 200
    /\ embed.response.texts = <<<<"v", "2", ".">>, <<"v", "1">>>>
    /\ embed.response.count = 2
    /\ embed.response.dimension = EmbeddingDim

\* C11 as stated: a list whose entries are all blank is answered with
\* count 0 and dimension 0.
C11_AllBlankCountsZero ==
    EmbedProper =>
        IF Survivors = {}
          THEN /\ embed.response.status = 200
               /\ embed.response.count = 0
               /\ embed.response.dimension = 0
        ELSE SurvivorsAnswered

====
